---- MODULE Spec2Model ----
(***************************************************************************)
(* Model of src/confusion.py: class Confusion, an incrementally updated    *)
(* confusion matrix with derived scores.                                   *)
(*                                                                         *)
(* The matrix is kept the way numpy's `.flat` sees it: row-major, flat     *)
(* index k = gt*class_count + pred, stored here at sequence position k+1.  *)
(* Floating point quotients are modelled as exact fractions <<num, den>>   *)
(* in lowest terms; 0/0 is NaN and x/0 (x > 0) is Inf, as numpy's true     *)
(* division of integer arrays gives them.                                  *)
(***************************************************************************)
EXTENDS Integers, Sequences, FiniteSets, TLC

\* ---------------------------------------------------------------- bounds
\* Longest label array handed to one incremental_update call.
MaxLen == 1
\* Updates are enabled only while the matrix total stays within this.
MaxTotal == 2
\* The same two bounds where every label handed in is a class index or void.
MaxValidLen == 2
MaxValidTotal == 4

\* ---------------------------------------------------------- configuration
\* Confusion(None, label_count=2): class_count = len(label_names).
class_count == 2
\* Default of __init__'s void_label parameter.
void_label == -1
\* Default of incremental_update's update_finished parameter.
update_finished_default_flipped == FALSE
update_finished_default == TRUE

Size == class_count * class_count
Classes == 0 .. (class_count - 1)
\* Labels a caller may put in an array: one negative label that is not the
\* void label, the void label, the class indices, and one label too large.
Labels == (void_label - 1) .. class_count
Arrays == UNION {[1 .. n -> Labels] : n \in 0 .. MaxLen}

\* ------------------------------------------------------------- fractions
NaN == <<0, 0>>
Inf == <<1, 0>>
None == <<>>

RECURSIVE GCD(_, _)
GCD(a, b) == IF b = 0 THEN a ELSE GCD(b, a % b)

\* numpy true division of two non-negative integers.
TrueDivide(n, d) ==
    IF d = 0 THEN (IF n = 0 THEN NaN ELSE Inf)
    ELSE LET g == GCD(n, d) IN <<n \div g, d \div g>>

RECURSIVE SumSeq(_)
SumSeq(s) == IF s = <<>> THEN 0 ELSE Head(s) + SumSeq(Tail(s))

FracAdd(x, y) ==
    IF x = Inf \/ y = Inf THEN Inf
    ELSE TrueDivide(x[1] * y[2] + y[1] * x[2], x[2] * y[2])

RECURSIVE FracSum(_)
FracSum(s) == IF s = <<>> THEN <<0, 1>> ELSE FracAdd(Head(s), FracSum(Tail(s)))

FracDivInt(x, n) == IF x = Inf THEN Inf ELSE TrueDivide(x[1], x[2] * n)

\* np.nanmean: the mean of the entries that are not NaN; NaN when there is none.
NanMean(s) ==
    LET kept == SelectSeq(s, LAMBDA r : r # NaN)
    IN  IF kept = <<>> THEN NaN ELSE FracDivInt(FracSum(kept), Len(kept))

\* ------------------------------------------------------------ the matrix
Zeros == [k \in 1 .. Size |-> 0]
Cell(conf, i, j) == conf[i * class_count + j + 1]
Total(conf) == SumSeq(conf)
\* np.sum(confusion, 1), np.sum(confusion, 0), np.diag(confusion)
RowSums(conf) == [i \in 1 .. class_count |->
                    SumSeq([j \in 1 .. class_count |-> Cell(conf, i - 1, j - 1)])]
ColSums(conf) == [j \in 1 .. class_count |->
                    SumSeq([i \in 1 .. class_count |-> Cell(conf, i - 1, j - 1)])]
Diag(conf) == [i \in 1 .. class_count |-> Cell(conf, i - 1, i - 1)]

\* ---------------------------------------------------------------- finish
\* union = gt_sum_per_class + sum_per_class - diag
union_gt_support_only(conf) == RowSums(conf)
union_per_class(conf) ==
    [i \in 1 .. class_count |-> RowSums(conf)[i] + ColSums(conf)[i] - Diag(conf)[i]]

\* global_score = np.sum(np.diag(confusion)) / total
global_score_per_class_count(conf) == TrueDivide(SumSeq(Diag(conf)), class_count)
global_score_of(conf) == TrueDivide(SumSeq(Diag(conf)), Total(conf))

\* avg_score = np.nanmean(diag / gt_sum_per_class)
avg_score_of(conf) ==
    NanMean([i \in 1 .. class_count |-> TrueDivide(Diag(conf)[i], RowSums(conf)[i])])

\* avg_iou_score = np.nanmean(diag / union)
avg_iou_score_of(conf) ==
    NanMean([i \in 1 .. class_count |->
                TrueDivide(Diag(conf)[i], union_per_class(conf)[i])])

\* (confusion.T / gt_sum_per_class).T and confusion / sum_per_class
normalized_row_of(conf) ==
    [k \in 1 .. Size |-> TrueDivide(conf[k], RowSums(conf)[((k - 1) \div class_count) + 1])]
normalized_col_of(conf) ==
    [k \in 1 .. Size |-> TrueDivide(conf[k], ColSums(conf)[((k - 1) % class_count) + 1])]

\* Everything finish() assigns, computed from the matrix it is given.
finish(conf) ==
    [ gt_sum_per_class         |-> RowSums(conf),
      sum_per_class            |-> ColSums(conf),
      global_score             |-> global_score_of(conf),
      avg_score                |-> avg_score_of(conf),
      avg_iou_score            |-> avg_iou_score_of(conf),
      confusion_normalized_row |-> normalized_row_of(conf),
      confusion_normalized_col |-> normalized_col_of(conf) ]

\* ---------------------------------------------------- incremental_update
Max(S) == CHOOSE x \in S : \A y \in S : y <= x
Elems(a) == {a[k] : k \in 1 .. Len(a)}

\* The raise statements at the head of incremental_update, in their order.
\* np.max of an empty array raises ValueError by itself.
Validation(fin, gt, pred, allow_void_prediction, update_finished) ==
    IF Len(gt) # Len(pred) THEN "ShapeMismatch"
    ELSE IF ~allow_void_prediction /\ void_label \in Elems(pred) THEN "VoidPrediction"
    ELSE IF Len(gt) = 0 THEN "EmptyReduction"
    ELSE IF Max(Elems(gt)) >= class_count THEN "LabelOutOfRange"
    ELSE IF Max(Elems(pred)) >= class_count THEN "LabelOutOfRange"
    ELSE IF fin /\ ~update_finished THEN "StaleState"
    ELSE "ok"

\* astype(np.int32): TLC's integers are 32-bit themselves, so every label
\* the model can hold is kept by the cast.
astype_int32(x) == x

\* The positions kept by the non_void mask.
NonVoid(gt, pred, allow_void_prediction) ==
    {k \in 1 .. Len(gt) :
        /\ astype_int32(gt[k]) # void_label
        /\ (allow_void_prediction => astype_int32(pred[k]) # void_label)}

\* pairs = gt_flat*class_count + pred_flat, at a kept position.
PairAt(gt, pred, k) == astype_int32(gt[k]) * class_count + astype_int32(pred[k])

\* flatiter indexing: an index in -size .. size-1 is taken modulo size,
\* any other index raises IndexError.
InBounds(p) == -Size <= p /\ p < Size
WrapIndex(p) == IF p < 0 THEN p + Size ELSE p

\* confusion.flat[pairs] += pair_counts, with pairs the sorted unique values:
\* the read of all cells comes first (and raises on a bad index), then the
\* sums are stored one pair after the other in ascending order, so of two
\* pairs that address the same cell the larger one is stored last.
flat_assign(conf, pairs, pair_counts) ==
    [ok |-> \A p \in pairs : InBounds(p),
     confusion |->
        [k \in 1 .. Size |->
            LET hits == {p \in pairs : InBounds(p) /\ WrapIndex(p) = k - 1}
            IN  IF hits = {} THEN conf[k] ELSE pair_counts[Max(hits)]]]
flat_iadd(conf, pairs, pair_counts) ==
    [ok |-> \A p \in pairs : InBounds(p),
     confusion |->
        [k \in 1 .. Size |->
            LET hits == {p \in pairs : InBounds(p) /\ WrapIndex(p) = k - 1}
            IN  IF hits = {} THEN conf[k] ELSE conf[k] + pair_counts[Max(hits)]]]

\* Lines 140-149: mask, pairs, np.unique with counts, the indexed add.
UniqueCounts(gt, pred, kept, pairs) ==
    [p \in pairs |-> Cardinality({k \in kept : PairAt(gt, pred, k) = p})]
UniquePairs(gt, pred, kept) == {PairAt(gt, pred, k) : k \in kept}
AccumulateKept(conf, gt, pred, kept) ==
    flat_iadd(conf, UniquePairs(gt, pred, kept),
              UniqueCounts(gt, pred, kept, UniquePairs(gt, pred, kept)))
Accumulate(conf, gt, pred, allow_void_prediction) ==
    AccumulateKept(conf, gt, pred, NonVoid(gt, pred, allow_void_prediction))

\* The whole call: what it raises (or "ok"), and the matrix and flag it
\* leaves. v is the result of the validation, acc that of the indexed add.
Outcome(v, acc, conf, fin) ==
    IF v # "ok"
    THEN [outcome |-> v, confusion |-> conf, finished_computation |-> fin]
    ELSE IF ~acc.ok
    THEN [outcome |-> "IndexError", confusion |-> conf, finished_computation |-> fin]
    ELSE [outcome |-> "ok", confusion |-> acc.confusion, finished_computation |-> FALSE]
OutcomeAccumulateFirst(v, acc, conf, fin) ==
    IF v \notin {"ok", "StaleState"}
    THEN [outcome |-> v, confusion |-> conf, finished_computation |-> fin]
    ELSE IF ~acc.ok
    THEN [outcome |-> "IndexError", confusion |-> conf, finished_computation |-> fin]
    ELSE IF v = "StaleState"
    THEN [outcome |-> v, confusion |-> acc.confusion, finished_computation |-> fin]
    ELSE [outcome |-> "ok", confusion |-> acc.confusion, finished_computation |-> FALSE]
OutcomeKeepsFlag(v, acc, conf, fin) ==
    IF v # "ok"
    THEN [outcome |-> v, confusion |-> conf, finished_computation |-> fin]
    ELSE IF ~acc.ok
    THEN [outcome |-> "IndexError", confusion |-> conf, finished_computation |-> fin]
    ELSE [outcome |-> "ok", confusion |-> acc.confusion, finished_computation |-> fin]

\* The stale-state raise moved behind the accumulation.
incremental_update_accumulate_first(conf, fin, gt, pred, allow_void_prediction, update_finished) ==
    OutcomeAccumulateFirst(
        Validation(fin, gt, pred, allow_void_prediction, update_finished),
        Accumulate(conf, gt, pred, allow_void_prediction), conf, fin)
\* The closing `self.finished_computation = False` left out.
incremental_update_keeps_flag(conf, fin, gt, pred, allow_void_prediction, update_finished) ==
    OutcomeKeepsFlag(
        Validation(fin, gt, pred, allow_void_prediction, update_finished),
        Accumulate(conf, gt, pred, allow_void_prediction), conf, fin)
incremental_update(conf, fin, gt, pred, allow_void_prediction, update_finished) ==
    Outcome(
        Validation(fin, gt, pred, allow_void_prediction, update_finished),
        Accumulate(conf, gt, pred, allow_void_prediction), conf, fin)

\* if not self.finished_computation: self.finish()   (plot, print_confusion_matrix)
never_refinish(fin) == FALSE
needs_finish(fin) == ~fin


\* ----------------------------------------------------------------- state
VARIABLES
    \* the fields of one Confusion object
    confusion, confusion_normalized_row, confusion_normalized_col,
    global_score, avg_score, avg_iou_score, finished_computation,
    gt_sum_per_class, sum_per_class,
    \* the most recent call: its name, what it raised, and the update_finished
    \* argument as passed if the call read it: `self.finished_computation and
    \* not update_finished` reads it only when the flag is up
    call,
    \* what the most recent call rendered (None unless it was a reader)
    shown,
    \* the last of reset / incremental_update / finish to return normally
    last_done,
    \* per cell (i, j), the positions with gt = i and pred = j over the updates
    \* that returned normally since construction or the last reset
    counted,
    \* a second object that is handed every batch in parts, and the number of
    \* part calls of the last batch that returned normally
    split_confusion, split_finished, split_parts

fields == <<confusion, confusion_normalized_row, confusion_normalized_col,
            global_score, avg_score, avg_iou_score, finished_computation,
            gt_sum_per_class, sum_per_class>>
split == <<split_confusion, split_finished, split_parts>>
vars == <<fields, call, shown, last_done, counted, split>>

\* Per cell, the positions k of a batch with gt[k] = i and pred[k] = j.
Tally(gt, pred) ==
    [c \in 1 .. Size |->
        Cardinality({k \in 1 .. Len(gt) :
            /\ gt[k] = (c - 1) \div class_count
            /\ pred[k] = (c - 1) % class_count})]

Added(count, tally) == [c \in 1 .. Size |-> count[c] + tally[c]]

Called(op, outcome, flag) ==
    [op |-> op, outcome |-> outcome,
     update_finished |-> IF op = "update" /\ finished_computation /\ outcome \in {"ok", "StaleState", "IndexError"}
                         THEN flag ELSE "unread"]

\* __init__ with label_count = class_count and the default void label; it ends in reset().
Init ==
    /\ confusion = Zeros
    /\ confusion_normalized_row = None
    /\ confusion_normalized_col = None
    /\ global_score = <<0, 1>>
    /\ avg_score = <<0, 1>>
    /\ avg_iou_score = <<0, 1>>
    /\ finished_computation = FALSE
    /\ gt_sum_per_class = None
    /\ sum_per_class = None
    /\ call = [op |-> "init", outcome |-> "ok", update_finished |-> "unread"]
    /\ shown = None
    /\ last_done = "init"
    /\ counted = Zeros
    /\ split_confusion = Zeros
    /\ split_finished = FALSE
    /\ split_parts = 0

\* reset() as it assigns the fields; gt_sum_per_class and sum_per_class are
\* not among its assignments.
DoReset ==
    /\ confusion' = Zeros
    /\ confusion_normalized_row' = None
    /\ confusion_normalized_col' = None
    /\ global_score' = <<0, 1>>
    /\ avg_score' = <<0, 1>>
    /\ avg_iou_score' = <<0, 1>>
    /\ finished_computation' = FALSE
    /\ UNCHANGED <<gt_sum_per_class, sum_per_class>>
    /\ call' = Called("reset", "ok", "omitted")
    /\ shown' = None
    /\ last_done' = "reset"
    /\ counted' = Zeros

Reset == DoReset /\ UNCHANGED split

\* The assignments of finish() to the object's fields.
Finished(f) ==
    /\ gt_sum_per_class' = f.gt_sum_per_class
    /\ sum_per_class' = f.sum_per_class
    /\ global_score' = f.global_score
    /\ avg_score' = f.avg_score
    /\ avg_iou_score' = f.avg_iou_score
    /\ confusion_normalized_row' = f.confusion_normalized_row
    /\ confusion_normalized_col' = f.confusion_normalized_col
    /\ finished_computation' = TRUE
    /\ UNCHANGED confusion

DoFinish == Finished(finish(confusion))

CallFinish ==
    /\ DoFinish
    /\ call' = Called("finish", "ok", "omitted")
    /\ shown' = None
    /\ last_done' = "finish"
    /\ UNCHANGED counted

Finish == CallFinish /\ UNCHANGED split

FlagArgs == {"omitted", "True", "False"}
FlagValue(flag) == IF flag = "omitted" THEN update_finished_default ELSE flag = "True"

\* One incremental_update call whose result is r, while the total stays within cap.
Updated(r, gt, pred, flag, cap) ==
    /\ Total(r.confusion) <= cap
    /\ confusion' = r.confusion
    /\ finished_computation' = r.finished_computation
    /\ call' = Called("update", r.outcome, flag)
    /\ shown' = None
    /\ last_done' = IF r.outcome = "ok" THEN "update" ELSE last_done
    /\ counted' = IF r.outcome = "ok" THEN Added(counted, Tally(gt, pred)) ELSE counted
    /\ UNCHANGED <<confusion_normalized_row, confusion_normalized_col,
                   global_score, avg_score, avg_iou_score,
                   gt_sum_per_class, sum_per_class>>

Update(gt, pred, allow_void_prediction, flag, cap) ==
    Updated(incremental_update(confusion, finished_computation, gt, pred,
                               allow_void_prediction, FlagValue(flag)),
            gt, pred, flag, cap)

IncrementalUpdate ==
    \E gt \in Arrays, pred \in Arrays, allow_void_prediction \in BOOLEAN, flag \in FlagArgs :
        /\ Update(gt, pred, allow_void_prediction, flag, MaxTotal)
        /\ UNCHANGED split

\* plot and print_confusion_matrix: finish() if the flag is down, then read.
Reader(op) ==
    /\ IF needs_finish(finished_computation) THEN DoFinish ELSE UNCHANGED fields
    /\ last_done' = IF needs_finish(finished_computation) THEN "finish" ELSE last_done
    /\ call' = Called(op, "ok", "omitted")
    /\ UNCHANGED <<counted, split>>

PrintConfusionMatrix ==
    /\ Reader("print_confusion_matrix")
    /\ shown' = [confusion_normalized_row |-> confusion_normalized_row',
                 confusion_normalized_col |-> None,
                 global_score |-> global_score', avg_score |-> avg_score',
                 avg_iou_score |-> avg_iou_score']

Plot ==
    /\ Reader("plot")
    /\ shown' = [confusion_normalized_row |-> confusion_normalized_row',
                 confusion_normalized_col |-> confusion_normalized_col',
                 global_score |-> global_score', avg_score |-> avg_score',
                 avg_iou_score |-> avg_iou_score']

Next == Reset \/ Finish \/ IncrementalUpdate \/ PrintConfusionMatrix \/ Plot

Spec == Init /\ [][Next]_vars

\* ------------------------------------------------- batches of valid labels
\* Arrays whose labels are class indices or the void label, and the calls
\* with them that pass the checks on the arrays.
ValidArrays(n) == [1 .. n -> Classes \cup {void_label}]
ValidBatch(gt, pred, allow_void_prediction) ==
    /\ Len(gt) = Len(pred)
    /\ Len(gt) > 0
    /\ allow_void_prediction \/ void_label \notin Elems(pred)

ValidUpdate ==
    \E n \in 1 .. MaxValidLen, allow_void_prediction \in BOOLEAN :
        \E pred \in ValidArrays(n) :
            /\ allow_void_prediction \/ void_label \notin Elems(pred)
            /\ \E gt \in ValidArrays(n) :
                /\ ValidBatch(gt, pred, allow_void_prediction)
                /\ Update(gt, pred, allow_void_prediction, "omitted", MaxValidTotal)
                /\ UNCHANGED split

FinishNext == ValidUpdate \/ Finish

\* Accumulation of valid batches followed by finish(), for the scores.
FinishSpec == Init /\ [][FinishNext]_vars

\* ------------------------------------------------------ a batch in parts
\* The ways to cut an array of n labels into one, two or three consecutive
\* non-empty parts, each way the sequence of the parts' <<first, last>>.
Cuts(n) ==
    {<<<<1, n>>>>}
    \cup {<<<<1, c>>, <<c + 1, n>>>> : c \in 1 .. (n - 1)}
    \cup {<<<<1, c[1]>>, <<c[1] + 1, c[2]>>, <<c[2] + 1, n>>>> :
            c \in {d \in (1 .. (n - 1)) \X (1 .. (n - 1)) : d[1] < d[2]}}

\* The orders in which m parts can be handed in.
Orders(m) == {f \in [1 .. m -> 1 .. m] : \A i, j \in 1 .. m : f[i] = f[j] => i = j}

\* The second object after one more incremental_update call with result r.
AfterPart(st, r) ==
    [confusion |-> r.confusion, finished |-> r.finished_computation,
     parts |-> st.parts + (IF r.outcome = "ok" THEN 1 ELSE 0)]

PartCall(st, gt, pred, allow_void_prediction, flag) ==
    AfterPart(st, incremental_update(st.confusion, st.finished, gt, pred,
                                     allow_void_prediction, FlagValue(flag)))

\* The second object after the calls on the parts todo, one after the other.
RECURSIVE InParts(_, _, _, _, _, _)
InParts(st, gt, pred, allow_void_prediction, flag, todo) ==
    IF todo = <<>> THEN st
    ELSE InParts(PartCall(st, SubSeq(gt, Head(todo)[1], Head(todo)[2]),
                          SubSeq(pred, Head(todo)[1], Head(todo)[2]),
                          allow_void_prediction, flag),
                 gt, pred, allow_void_prediction, flag, Tail(todo))

SplitDone(st) ==
    /\ split_confusion' = st.confusion
    /\ split_finished' = st.finished
    /\ split_parts' = st.parts

\* One call with the whole batch on the first object, the calls with its
\* parts on the second; the flag is down on both, so update_finished is not read.
SplitUpdate ==
    \E n \in 1 .. MaxValidLen, allow_void_prediction \in BOOLEAN :
        \E pred \in ValidArrays(n) :
            /\ allow_void_prediction \/ void_label \notin Elems(pred)
            /\ \E gt \in ValidArrays(n) :
                /\ ValidBatch(gt, pred, allow_void_prediction)
                /\ Update(gt, pred, allow_void_prediction, "omitted", MaxValidTotal)
                /\ \E cut \in Cuts(n) :
                    \E order \in Orders(Len(cut)) :
                        SplitDone(InParts(
                            [confusion |-> split_confusion, finished |-> split_finished,
                             parts |-> 0],
                            gt, pred, allow_void_prediction, "omitted",
                            [i \in 1 .. Len(cut) |-> cut[order[i]]]))

SplitReset ==
    /\ DoReset
    /\ split_confusion' = Zeros
    /\ split_finished' = FALSE
    /\ split_parts' = 0

SplitNext == SplitUpdate \/ SplitReset

SplitSpec == Init /\ [][SplitNext]_vars

\* ================================================================ claims
Rejections == {"ShapeMismatch", "VoidPrediction", "EmptyReduction",
               "LabelOutOfRange", "StaleState", "IndexError"}
Readers == {"plot", "print_confusion_matrix"}

\* The mean of num[i] / den[i] over the classes i in S (den[i] > 0 there),
\* over a common denominator; undefined (NaN) for no class at all.
RECURSIVE Product(_, _)
Product(S, den) ==
    IF S = {} THEN 1
    ELSE LET i == CHOOSE x \in S : TRUE IN den[i] * Product(S \ {i}, den)
RECURSIVE Numerator(_, _, _, _)
Numerator(S, num, den, all) ==
    IF S = {} THEN 0
    ELSE LET i == CHOOSE x \in S : TRUE
         IN  num[i] * Product(all \ {i}, den) + Numerator(S \ {i}, num, den, all)
MeanOver(S, num, den) ==
    IF S = {} THEN NaN
    ELSE TrueDivide(Numerator(S, num, den, S), Product(S, den) * Cardinality(S))

ClassIds == 1 .. class_count
Supported(conf) == {i \in ClassIds : RowSums(conf)[i] > 0}
Touched(conf) == {i \in ClassIds : RowSums(conf)[i] + ColSums(conf)[i] - Diag(conf)[i] > 0}
UnionOf(conf) == [i \in ClassIds |-> RowSums(conf)[i] + ColSums(conf)[i] - Diag(conf)[i]]

\* C1 (as claimed): an update that finds the flag up and is not passed
\* update_finished is rejected, and the flag stays up.
C1_DefaultRejects ==
    (call.op = "update" /\ call.update_finished = "omitted")
        => (call.outcome \in Rejections /\ finished_computation)

\* C1 (amended): on an update that finds the flag up and passes the checks on
\* its arrays, leaving update_finished out is the same as passing True: the
\* call is not rejected as stale, and when it returns normally the flag is
\* down. Only update_finished=False makes the call raise the stale-state
\* exception, leaving the matrix as it was and the flag up.
C1_DefaultAllows ==
    [][(call'.op = "update" /\ call'.update_finished # "unread") =>
          /\ finished_computation
          /\ call'.update_finished \in {"omitted", "True"} =>
                /\ call'.outcome \in {"ok", "IndexError"}
                /\ call'.outcome = "ok" => ~finished_computation'
          /\ call'.update_finished = "False" =>
                /\ call'.outcome = "StaleState"
                /\ confusion' = confusion
                /\ finished_computation']_vars

C1_Witness ==
    /\ call.op = "update"
    /\ call.update_finished = "omitted"
    /\ call.outcome = "ok"
    /\ ~finished_computation
    /\ Total(confusion) > 0

\* C2: an update that raises leaves every cell of the matrix and the
\* finished flag as they were.
C2_RejectedUpdateChangesNothing ==
    [][(call'.op = "update" /\ call'.outcome \in Rejections) =>
          /\ confusion' = confusion
          /\ finished_computation' = finished_computation]_vars

C2_Witness ==
    /\ call.op = "update"
    /\ call.outcome = "StaleState"
    /\ Total(confusion) > 0
    /\ finished_computation

\* C3 (as claimed): every cell (i, j) holds the number of positions with
\* gt = i and pred = j over the updates that returned normally since
\* construction or the last reset.
C3_CellsCountTheirPositions == confusion = counted

\* C4: the object that got every batch in parts, in any order, holds the same
\* matrix as the object that got each batch in one call.
C4_PartsEqualWhole == split_confusion = confusion

C4_Witness ==
    /\ call.op = "update"
    /\ call.outcome = "ok"
    /\ split_parts = 2
    /\ \E c \in 1 .. Size : confusion[c] >= 2

C6_IoUOverSupportedClasses ==
    finished_computation =>
        avg_iou_score = MeanOver(Supported(confusion), Diag(confusion), UnionOf(confusion))

\* C6 (amended): avg_iou_score is the mean of diag / union over the classes
\* whose union is not zero, that is, with ground-truth support or with
\* predictions; a class without support that was predicted counts with IoU 0.
C6_IoUOverTouchedClasses ==
    finished_computation =>
        avg_iou_score = MeanOver(Touched(confusion), Diag(confusion), UnionOf(confusion))

C6_Witness ==
    /\ finished_computation
    /\ \E i \in ClassIds : RowSums(confusion)[i] = 0 /\ ColSums(confusion)[i] > 0
    /\ avg_iou_score # NaN

\* C7: after finish() on a matrix with a nonzero total, global_score * total
\* is the sum of the diagonal and avg_score is the mean of diag / gt_sum over
\* the classes with ground-truth support; gt [0,0,1,1] with pred [0,1,1,1]
\* gives [[1,1],[0,2]] and the scores 3/4, 3/4 and 7/12.
C7_GlobalAndAverageScore ==
    /\ (finished_computation /\ Total(confusion) > 0) =>
          /\ global_score[2] > 0
          /\ global_score[1] * Total(confusion) = SumSeq(Diag(confusion)) * global_score[2]
          /\ avg_score = MeanOver(Supported(confusion), Diag(confusion), RowSums(confusion))
    /\ (class_count = 2 /\ void_label = -1) =>
          /\ incremental_update(Zeros, FALSE, <<0, 0, 1, 1>>, <<0, 1, 1, 1>>,
                                FALSE, update_finished_default).confusion = <<1, 1, 0, 2>>
          /\ (finished_computation /\ confusion = <<1, 1, 0, 2>>) =>
                /\ global_score = <<3, 4>>
                /\ avg_score = <<3, 4>>
                /\ avg_iou_score = <<7, 12>>

C7_Witness ==
    /\ finished_computation
    /\ confusion = <<1, 1, 0, 2>>
    /\ call.op = "finish"

\* C8 (as claimed): right after reset() the object is in the state of a
\* freshly constructed one.
C8_ResetGivesFreshObject ==
    call.op = "reset" =>
        /\ confusion = Zeros
        /\ confusion_normalized_row = None
        /\ confusion_normalized_col = None
        /\ global_score = <<0, 1>>
        /\ avg_score = <<0, 1>>
        /\ avg_iou_score = <<0, 1>>
        /\ finished_computation = FALSE
        /\ gt_sum_per_class = None
        /\ sum_per_class = None

\* C9: the flag is up exactly when the last call of reset, incremental_update
\* and finish to return normally was finish; a new object has the flag down
\* and a zero matrix.
C9_FlagFollowsLastCall ==
    /\ finished_computation <=> last_done = "finish"
    /\ last_done = "init" => (~finished_computation /\ confusion = Zeros)

C9_Witness ==
    /\ last_done = "update"
    /\ call.op = "update"
    /\ call.update_finished \in {"omitted", "True"}
    /\ call.outcome = "ok"
    /\ ~finished_computation

\* C10 (as claimed): the total of the matrix is the number of positions with
\* two class indices as labels over the updates that returned normally.
C10_TotalCountsValidPositions == Total(confusion) = SumSeq(counted)

====
